---------------------------- MODULE Spec2Model ----------------------------
(***************************************************************************)
(* Model of the metabase/TOC resolution engine of pyrostat:                *)
(*   src/pyrostat/collection.py  classes __Base, Bulk, Meta                *)
(*   src/collection.py           class Collection (the earlier variant)    *)
(*                                                                         *)
(* Reading of the source.  Every function body is modelled as Python       *)
(* executes it: its conditions, its early returns and raises, its          *)
(* try/except blocks, and the library calls it makes (list.pop, pandas     *)
(* groupby/get_group/unique, str.format).  Names that a body refers to     *)
(* are bound to the object they denote in the repository: `Session` is the *)
(* Session Port, `settings.X` the configuration constant X, and            *)
(* `self.metabase`, `self.toc`, `self.sort`, `self.url` the fields written *)
(* by the corresponding setters.  The modules `settings` and `session` are *)
(* not part of the source tree; what the model needs of them is taken from *)
(* the specification and from the comments of the source.                  *)
(* A name that a body reads and that is neither a parameter, a local, nor  *)
(* a collaborator of the repository (`domain` in _url_static) is unbound:  *)
(* reading it raises NameError.                                            *)
(* An object of class "Meta" stands for the facade of pyrostat: the        *)
(* methods of Meta on the fields and attributes that __Base and Bulk       *)
(* define (lang, sort, url, the dictionaries, the listing tables).         *)
(* `settings.__builtins__[name]` is a lookup in the table of the built-in  *)
(* names of the interpreter; whether settings has put its constants there  *)
(* is an input of each call that makes the lookup.                         *)
(*                                                                         *)
(* Values.  Python values that may be an int, a str or None are tagged     *)
(* tuples <<"int", n>>, <<"str", s>>, <<"none">>.  A string the code       *)
(* builds is a sequence of tokens (Text turns it into the string itself).  *)
(* An outcome of a call is [kind |-> "ok", val |-> v] for a return and     *)
(* [kind |-> "raise", err |-> e] for an exception.                         *)
(***************************************************************************)
EXTENDS Integers, Sequences, FiniteSets, TLC

VARIABLES
    cls,        \* class of the facade object: "Meta" or "Collection"
    base_names, \* settings.BULK_BASE_NAMES, the process-wide column names
    metabase,   \* the object's metabase table, or None
    toc,        \* the object's table of contents, or None
    toc_lang,   \* the language of the file toc was read from, or None
    _lang,      \* the object's lang attribute
    _sort,      \* the object's sort attribute
    resolved,   \* the object's resolved caches: the dictionaries datasets, dimensions
    peer,       \* the metabase table of another object of the class, or None
    _table_,    \* the object's listing tables: that of 'dic', those of 'data' by letter
    call,       \* the last call made: its operation and its arguments
    ret         \* the outcome of that call

vars == <<cls, base_names, metabase, toc, toc_lang, _lang, _sort, resolved, _table_, peer,
          call, ret>>

tables == <<metabase, toc, toc_lang>>

fields == <<_lang, _sort, resolved, _table_>>

(***************************************************************************)
(* Python values and outcomes                                              *)
(***************************************************************************)
I(n) == <<"int", n>>

S(s) == <<"str", s>>

None == <<"none">>

IsInt(v) == v[1] = "int"

IsStr(v) == v[1] = "str"

Ok(v) == [kind |-> "ok", val |-> v]

Raise(e) == [kind |-> "raise", err |-> e]

NoCall == [op |-> "init"]

\* {}: the dictionary without a key
EmptyDict == <<>>

NoRet == [kind |-> "none"]

Range(s) == {s[i] : i \in 1..Len(s)}

\* str(n) for an integer n, digit by digit
Digit == <<"0", "1", "2", "3", "4", "5", "6", "7", "8", "9">>

RECURSIVE NatStr(_)
NatStr(n) == IF n < 10 THEN Digit[n + 1] ELSE NatStr(n \div 10) \o Digit[(n % 10) + 1]

IntStr(n) == IF n < 0 THEN "-" \o NatStr(-n) ELSE NatStr(n)

\* "{}".format(v)
Format(v) ==
    CASE IsInt(v) -> IntStr(v[2])
      [] IsStr(v) -> v[2]
      [] OTHER    -> "None"

\* the string a token sequence stands for
RECURSIVE Text(_)
Text(toks) == IF toks = <<>> THEN "" ELSE Head(toks) \o Text(Tail(toks))

(***************************************************************************)
(* Ordered keyword mappings (kwargs): sequences of <<key, value>> pairs    *)
(* with distinct keys, in the caller's order.                              *)
(***************************************************************************)
Keys(kw) == {kw[i][1] : i \in 1..Len(kw)}

HasKey(kw, k) == k \in Keys(kw)

Get(kw, k) == kw[CHOOSE i \in 1..Len(kw) : kw[i][1] = k][2]

\* kwargs after kwargs.pop(k)
Without(kw, k) == SelectSeq(kw, LAMBDA p : p[1] # k)

(***************************************************************************)
(* Configuration (module settings)                                         *)
(***************************************************************************)
LANGS == {"en", "de", "fr"}

DEF_SORT == 1

DEF_LANG == "en"

BULK_BASE_FILE == "metabase"

BULK_BASE_EXT == "txt"

BULK_BASE_ZIP == "gz"

BULK_TOC_FILE == "table_of_contents"

BULK_TOC_EXTS == <<"txt", "xml">>

BULK_TOC_ZIP == ""

BULK_DIC_ZIP == "gz"

(***************************************************************************)
(* Session Port: Session.build_url                                         *)
(***************************************************************************)
RECURSIVE JoinPairs(_)
JoinPairs(kw) ==
    IF kw = <<>> THEN <<>>
    ELSE <<kw[1][1], "=", Format(kw[1][2])>>
         \o (IF Len(kw) > 1 THEN <<"&">> ELSE <<>>)
         \o JoinPairs(Tail(kw))

build_url(domain, kw) ==
    IF kw = <<>> THEN <<domain>> ELSE <<domain, "?">> \o JoinPairs(kw)

(***************************************************************************)
(* URL Builder: Bulk.update_url / Collection.update_url                    *)
(***************************************************************************)
\* lines 450-451: lang = kwargs.pop('lang') if present, else None
LangOf(kwargs) == IF HasKey(kwargs, "lang") THEN Get(kwargs, "lang") ELSE None

PopLangKept(kwargs) == kwargs

PopLang(kwargs) == Without(kwargs, "lang")

LangNeverRejected(lang) == FALSE

\* line 452: lang is not None and lang not in settings.LANGS
LangRejected(lang) == lang # None /\ ~(IsStr(lang) /\ lang[2] \in LANGS)

SortOfNoDefault(kwargs) == IF HasKey(kwargs, "sort") THEN Get(kwargs, "sort") ELSE None

\* lines 456-457: sort = kwargs.pop('sort') if present, else settings.DEF_SORT
SortOf(kwargs) == IF HasKey(kwargs, "sort") THEN Get(kwargs, "sort") ELSE I(DEF_SORT)

SortInPlace(sort, kwargs) ==
    IF HasKey(kwargs, "sort") THEN kwargs ELSE kwargs \o <<<<"sort", sort>>>>

\* line 458: OrderedDict([('sort', sort)] + list(kwargs.items()))
SortFirst(sort, kwargs) == <<<<"sort", sort>>>> \o Without(kwargs, "sort")

\* lines 461-462: "{url}/{lang}".format(url=url, lang=lang)
AppendLang(url, lang) == IF lang # None THEN url \o <<"/", Format(lang)>> ELSE url

update_url(domain, kwargs) ==
    IF kwargs = <<>> THEN Ok(<<domain>>)
    ELSE LET lang == LangOf(kwargs)
             kw1  == PopLang(kwargs)
         IN  IF LangRejected(lang) THEN Raise("language not supported")
             ELSE LET sort == SortOf(kw1)
                      kw2  == SortFirst(sort, kw1)
                  IN  Ok(AppendLang(build_url(domain, kw2), lang))

\* __Base._url_static(self, kwargs), lines 236-253: the body of update_url
\* without a parameter `domain`.  The name domain is neither a parameter nor
\* a local nor a global of the module: evaluating it (line 238, line 250)
\* raises NameError.
_url_static(self_domain, kwargs) ==
    IF kwargs = <<>> THEN Raise("NameError")
    ELSE LET lang == LangOf(kwargs)
         IN  IF LangRejected(lang) THEN Raise("language not supported")
             ELSE Raise("NameError")

(***************************************************************************)
(* Bounds and input universes of the URL Builder                           *)
(***************************************************************************)
MaxParams == 3

MaxSort == 2

Domains == {"example.org", "ec.europa.eu/bulk"}

SortVals == {I(n) : n \in -1..MaxSort} \cup {S("a")}

LangVals == {S("en"), S("fr"), S("xx"), None}

ParamVals(k) ==
    CASE k = "sort" -> SortVals
      [] k = "lang" -> LangVals
      [] k = "dir"  -> {S("data"), S("dic")}
      [] OTHER      -> {S("metabase.txt.gz")}

ParamKeys == {"sort", "lang", "dir", "file"}

\* the mappings of n parameters with distinct keys, in every order
RECURSIVE ParamMapsOfLen(_)
ParamMapsOfLen(n) ==
    IF n = 0 THEN {<<>>}
    ELSE UNION {UNION {{Append(kw, <<k, v>>) : v \in ParamVals(k)} :
                         k \in ParamKeys \ Keys(kw)} :
                  kw \in ParamMapsOfLen(n - 1)}

ParamMaps == UNION {ParamMapsOfLen(n) : n \in 0..MaxParams}

(***************************************************************************)
(* Metabase table: a pandas DataFrame, here a tagged sequence of rows      *)
(* <<dataset code, dimension code, label code>>.  The columns carry the    *)
(* names of settings.BULK_BASE_NAMES, which read_url_table is given as     *)
(* `names`: the keys 'data', 'dic', 'label' in pyrostat/collection.py, the *)
(* list ['dataset', 'dimension', 'label'] in collection.py.                *)
(***************************************************************************)
DataFrame(rows) == <<"df", rows>>

Rows(df) == df[2]

META_BASE_NAMES == <<"data", "dic", "label">>

COLL_BASE_NAMES == <<"dataset", "dimension", "label">>

BaseNames(c) == IF c = "Meta" THEN META_BASE_NAMES ELSE COLL_BASE_NAMES

\* position of the column called `name`
ColumnOf(names, name) == CHOOSE i \in 1..Len(names) : names[i] = name

\* df[name]: the values of a column, row by row
Column(rows, names, name) == [i \in 1..Len(rows) |-> rows[i][ColumnOf(names, name)]]

\* Series.unique().tolist(): the distinct values in order of first appearance
RECURSIVE Unique(_)
Unique(s) ==
    IF s = <<>> THEN <<>>
    ELSE LET u == Unique(SubSeq(s, 1, Len(s) - 1))
         IN  IF s[Len(s)] \in Range(u) THEN u ELSE Append(u, s[Len(s)])

\* DataFrame.groupby(grpby).get_group(fltby): the rows whose values in the
\* columns grpby are fltby, position by position; KeyError when there is no
\* such group
GetGroup(rows, names, grpby, fltby) ==
    \* groupby raises KeyError on a key that is no column of the frame
    IF \E i \in 1..Len(grpby) : grpby[i] \notin Range(names) THEN Raise("KeyError")
    ELSE LET group == SelectSeq(rows, LAMBDA r :
                         \A i \in 1..Len(grpby) : r[ColumnOf(names, grpby[i])] = fltby[i])
         IN  IF group = <<>> THEN Raise("KeyError") ELSE Ok(group)

\* the orders in which Python may iterate over a set
Orders(set) == {o \in [1..Cardinality(set) -> set] : Range(o) = set}

GroupKeysAll(kwargs, members) == DOMAIN kwargs

\* line 693: set(kwargs.keys()).intersection(set(members))
GroupKeys(kwargs, members) == (DOMAIN kwargs) \cap Range(members)

NotRecognisedOrLabel(member, members) == member \notin Range(members) \ {"label"}

\* `member not in members`
NotRecognised(member, members) == member \notin Range(members)

(***************************************************************************)
(* Resolver: Meta.__get_member (pyrostat/collection.py).  kwargs is a      *)
(* function from keyword to value; order is the iteration order of the set *)
(* set(kwargs.keys()).intersection(set(members)).                          *)
(***************************************************************************)
Meta_get_member(member, mb, kwargs, order) ==
    LET members == META_BASE_NAMES
    IN  IF mb = None THEN Raise("metabase data not found")
        ELSE IF NotRecognised(member, members) THEN Raise("member value not recognised")
        ELSE IF (DOMAIN kwargs) \cap {member} # {}
             THEN Raise("member value should not be passed as a keyword argument")
        ELSE LET grpby == order
                 fltby == [i \in 1..Len(grpby) |-> kwargs[grpby[i]]]
                 group == IF grpby # <<>>
                          THEN GetGroup(Rows(mb), members, grpby, fltby)
                          ELSE Ok(Rows(mb))
             IN  IF group.kind = "raise" THEN group
                 ELSE Ok(Unique(Column(group.val, members, member)))

(***************************************************************************)
(* Resolver: Collection.__get_member (collection.py).  members is the list *)
(* settings.BULK_BASE_NAMES itself, not a copy, and member, having passed  *)
(* `member in members`, is one of its strings: list.pop(member) raises     *)
(* TypeError (pop takes an integer index) and leaves the list as it was,   *)
(* so lines 450-454 are not reached.  The outcome comes with the value of  *)
(* settings.BULK_BASE_NAMES after the call.                                *)
(***************************************************************************)
\* list.remove(index)
ListRemove(list, index) ==
    [out |-> Ok(None), list |-> SelectSeq(list, LAMBDA m : m # index)]

\* list.pop(index) for a str index
ListPop(list, index) == [out |-> Raise("TypeError"), list |-> list]

Collection_get_member(member, mb, kwargs) ==
    LET members == base_names
    IN  IF mb = None
        THEN [out |-> Raise("metabase data not found"), names |-> members]
        ELSE IF NotRecognised(member, members)
        THEN [out |-> Raise("member value not recognised"), names |-> members]
        ELSE LET pop == ListPop(members, member)
             IN  IF pop.out.kind = "raise" THEN [out |-> pop.out, names |-> pop.list]
                 ELSE LET grpby == SelectSeq(pop.list, LAMBDA m : m \in DOMAIN kwargs)
                          fltby == [i \in 1..Len(grpby) |-> kwargs[grpby[i]]]
                          \* groupby([]) raises ValueError: no group keys passed
                          group == IF grpby = <<>> THEN Raise("ValueError")
                                   ELSE GetGroup(Rows(mb), COLL_BASE_NAMES, grpby, fltby)
                      IN  [out   |-> IF group.kind = "raise" THEN group
                                     ELSE Ok(Unique(Column(group.val, COLL_BASE_NAMES, member))),
                           names |-> pop.list]

(***************************************************************************)
(* Listing properties                                                      *)
(***************************************************************************)
\* Meta.dataset, Meta.dimension: key is 'data' or 'dic'
Meta_listing(mb, key) ==
    IF mb = None THEN Raise("no METABASE data found")
    ELSE Ok(Unique(Column(Rows(mb), META_BASE_NAMES, key)))

\* Collection.meta_datasets, Collection.meta_dimensions: the guard tests
\* `is not None`; past it, None[...] raises TypeError
Collection_listing(mb, index) ==
    IF mb # None THEN Raise("no METABASE data found")
    ELSE Raise("TypeError")

(***************************************************************************)
(* Membership checks                                                       *)
(***************************************************************************)
\* Meta.__check_member / Collection.__check_member on a list of members
check_member(member, members) ==
    IF members = None \/ members = <<>> THEN Raise("no members to compare to")
    ELSE Ok(member \in Range(members))

\* Meta.check_dataset, Meta.check_dimension: against the listing property;
\* Meta.checkDataset: `dataset in self.getAllDatasets()`
Meta_check(method, value, mb) ==
    IF method = "checkDataset"
    THEN LET all == Meta_get_member("data", mb, <<>>, <<>>)
         IN  IF all.kind = "raise" THEN all ELSE Ok(value \in Range(all.val))
    ELSE LET listing == Meta_listing(mb, IF method = "check_dataset" THEN "data" ELSE "dic")
         IN  IF listing.kind = "raise" THEN listing ELSE check_member(value, listing.val)

\* Collection.check_dataset, Collection.check_dimension: members is
\* self.datasets / self.dimensions, the keys() view of the object's resolved
\* cache; a keys() view is neither None nor equal to []
Collection_check(method, value, keys) == Ok(value \in keys)

(***************************************************************************)
(* Loading: setMetabase / readMetabase (read_metabase)                     *)
(***************************************************************************)
\* self.url: the domain and query of the bulk download service
BulkUrl == "ec.europa.eu/eurostat/estat-navtree-portlet-prod/BulkDownloadListing"

\* lines 769-771: the metabase file name
MetabaseFile ==
    LET basefile == <<BULK_BASE_FILE, ".", BULK_BASE_EXT>>
    IN  IF BULK_BASE_ZIP # "" THEN basefile \o <<".", BULK_BASE_ZIP>> ELSE basefile

\* line 772: update_url(self.url, sort=self.sort, file=basefile)
MetabaseUrl(sort) ==
    update_url(BulkUrl, <<<<"sort", sort>>, <<"file", S(Text(MetabaseFile))>>>>)

readMetabaseMerging(url, fetched) ==
    IF fetched.kind = "raise" THEN Ok(None)
    ELSE IF metabase = None THEN fetched
    ELSE Ok(DataFrame(Rows(metabase) \o Rows(fetched.val)))

\* lines 781-785: try: read_url_table(url) / except: metabase = None
readMetabase(url, fetched) ==
    IF fetched.kind = "raise" THEN Ok(None) ELSE fetched

(***************************************************************************)
(* Loading: setTOC / readToc (read_toc).  kwargs is an ordered mapping     *)
(* that may hold 'ext' and 'lang'.  A TOC row as fetched is                *)
(* <<code, title, data start, data end, values>>, its cells being str,     *)
(* int or NaN (an empty cell of the file).  A title, which the code takes  *)
(* apart, is the str of a sequence of tokens, whitespace characters among  *)
(* them.                                                                   *)
(***************************************************************************)
NaN == <<"nan">>

\* the header row of the file (header = 0)
TOC_NAMES == <<"code", "title", "data start", "data end", "values">>

\* lines 801-807
TocExt(kwargs) == IF HasKey(kwargs, "ext") THEN Get(kwargs, "ext")[2] ELSE BULK_TOC_EXTS[1]

TocExtRejected(kwargs) ==
    HasKey(kwargs, "ext") /\ Get(kwargs, "ext")[2] \notin Range(BULK_TOC_EXTS)

\* lines 808-814
TocLang(kwargs, selflang) ==
    IF HasKey(kwargs, "lang") THEN Get(kwargs, "lang")[2] ELSE selflang

TocLangRejected(kwargs) == HasKey(kwargs, "lang") /\ Get(kwargs, "lang")[2] \notin LANGS

\* lines 815-820 (collection.py 499-504 starts from BULK_BASE_FILE)
TocFile(c, ext, lang) ==
    LET base    == IF c = "Meta" THEN BULK_TOC_FILE ELSE BULK_BASE_FILE
        tocfile == IF ext = "xml" THEN <<base, ".xml">>
                   ELSE <<base, "_", lang, ".", ext>>
    IN  IF BULK_TOC_ZIP # "" THEN tocfile \o <<".", BULK_DIC_ZIP>> ELSE tocfile

\* line 821
TocUrl(c, ext, lang, sort) ==
    update_url(BulkUrl, <<<<"sort", sort>>, <<"file", S(Text(TocFile(c, ext, lang)))>>>>)

\* line 832: toc.drop(toc.columns[-1], axis=1, inplace=True)
DropLastColumn(df) ==
    DataFrame([i \in 1..Len(Rows(df)) |->
                 SubSeq(Rows(df)[i], 1, Len(Rows(df)[i]) - 1)])

\* lines 823-834: the fetch, toc[0] for the XML variant, and the bare except
TocParsed(ext, fetched) ==
    IF fetched.kind = "raise" THEN None
    ELSE IF ext = "xml"
         THEN IF fetched.val = <<>> THEN None ELSE DropLastColumn(fetched.val[1])
         ELSE DropLastColumn(fetched.val)

\* line 833: toc.applymap(lambda x: x.strip()); the table it returns is
\* dropped, and x.strip() raises AttributeError on a cell that is no str
ApplyStrip(df) ==
    IF \E i \in 1..Len(Rows(df)) : \E j \in 1..Len(Rows(df)[i]) : ~IsStr(Rows(df)[i][j])
    THEN Raise("AttributeError")
    ELSE Ok(None)

readToc(c, kwargs, selflang, fetched) ==
    IF TocExtRejected(kwargs)
    THEN Raise("bulk table of contents extension EXT not recognised")
    ELSE IF TocLangRejected(kwargs) THEN Raise("language LANG not recognised")
    ELSE LET parsed == TocParsed(TocExt(kwargs), fetched)
         IN  IF parsed = None THEN Ok(None)
             ELSE IF ApplyStrip(parsed).kind = "raise" THEN ApplyStrip(parsed)
             ELSE Ok(parsed)

(***************************************************************************)
(* TOC lookup: Meta.__get_content, getTitle, getPeriod                     *)
(***************************************************************************)
Whitespace == {" ", "\t", "\n"}

\* str.lstrip(), str.rstrip() on a sequence of tokens
RECURSIVE LStrip(_)
LStrip(toks) ==
    IF toks # <<>> /\ Head(toks) \in Whitespace THEN LStrip(Tail(toks)) ELSE toks

RECURSIVE RStrip(_)
RStrip(toks) ==
    IF toks # <<>> /\ toks[Len(toks)] \in Whitespace
    THEN RStrip(SubSeq(toks, 1, Len(toks) - 1))
    ELSE toks

CodeMatchesAny(cell, member) == TRUE

\* code == member, code.isin([member])
CodeMatches(cell, member) == cell = member

\* toc[code == member]: the index of the rows kept, in the order of the table
get_content(member, t) ==
    IF t = None THEN Raise("table of contents not found")
    ELSE LET code == Column(Rows(t), TOC_NAMES, "code")
             ind  == SelectSeq([i \in 1..Len(code) |-> i],
                               LAMBDA i : CodeMatches(code[i], member))
         IN  IF ind = <<>> THEN Raise("member not found in codelist of table of contents")
             ELSE Ok(ind)

LastIndex(ind) == ind[Len(ind)]

\* ind[0]
FirstIndex(ind) == ind[1]

getTitle(dataset, t) ==
    LET res == get_content(dataset, t)
    IN  IF res.kind = "raise" THEN res
        ELSE LET title == Column(Rows(t), TOC_NAMES, "title")[FirstIndex(res.val)]
             IN  IF IsStr(title) THEN Ok(S(RStrip(LStrip(title[2]))))
                 ELSE Raise("AttributeError")

getPeriod(dataset, t) ==
    LET res == get_content(dataset, t)
    IN  IF res.kind = "raise" THEN res
        ELSE Ok(<<Column(Rows(t), TOC_NAMES, "data start")[FirstIndex(res.val)],
                  Column(Rows(t), TOC_NAMES, "data end")[FirstIndex(res.val)]>>)

(***************************************************************************)
(* Bounds and input universes of the facade                                *)
(***************************************************************************)
MaxRows == 2

\* the rows the remote metabase file may hold
MetabaseRows ==
    {<<"ds1", "dim1", "lbl1">>, <<"ds1", "dim2", "lbl2">>, <<"ds2", "dim1", "lbl3">>}

RECURSIVE SeqsOfLen(_, _)
SeqsOfLen(set, n) ==
    IF n = 0 THEN {<<>>}
    ELSE {Append(t, r) : t \in SeqsOfLen(set, n - 1), r \in set}

\* what the Session Port may return for the metabase file
MetabaseTables == {DataFrame(t) : t \in UNION {SeqsOfLen(MetabaseRows, n) : n \in 0..MaxRows}}

\* the values a query may give for a constraint on column i
QueryCodes(i) ==
    CASE i = 1 -> {"ds1", "ds2"}
      [] i = 2 -> {"dim1", "dim2"}
      [] OTHER -> {"lbl1", "lbl2"}

MemberArgs(c) == Range(BaseNames(c)) \cup {"geo"}

KwargsOver(c, keys) ==
    {kw \in [keys -> UNION {QueryCodes(i) : i \in 1..3}] :
        \A k \in keys : kw[k] \in QueryCodes(ColumnOf(BaseNames(c), k))}

QueryKwargs(c) == UNION {KwargsOver(c, keys) : keys \in SUBSET Range(BaseNames(c))}

\* the keyword arguments a caller may add to getAllLabels / getLabels: a
\* dataset, and a key that is no column of the metabase
ExtraKey == "geo"

LabelKwargs(c) ==
    UNION {[keys -> QueryCodes(1) \cup {"EU"}] : keys \in SUBSET {BaseNames(c)[1], ExtraKey}}

\* the part of the keyword arguments made of columns of the metabase
Semantic(c, kwargs) ==
    [k \in (DOMAIN kwargs) \cap Range(BaseNames(c)) |-> kwargs[k]]

MaxTocRows == 2

\* the rows the remote table of contents may hold
TocRows ==
    {<<S("ds1"), S(<<" ", "T1", "\t">>), S("2000"), S("2010"), I(5)>>,
     <<S("ds1"), S(<<"T", " ", "2">>), S(" 2005"), S("2015 "), I(7)>>,
     <<S("ds2"), NaN, S("1990"), S("2020"), I(0)>>}

\* the dataset codes a lookup may ask for
LookupCodes == {S("ds1"), S("ds2")}

TocTables == {DataFrame(t) : t \in UNION {SeqsOfLen(TocRows, n) : n \in 0..MaxTocRows}}

\* what the Session Port may answer: read_url_table a table, read_html_table
\* the list of the tables of the page
TocFetched(ext) ==
    {Raise("session")} \cup
    (IF ext = "xml" THEN {Ok(<<>>)} \cup {Ok(<<t>>) : t \in TocTables}
     ELSE {Ok(t) : t \in TocTables})

TocKwargs ==
    LET exts  == {<<>>} \cup {<<<<"ext", S(e)>>>> : e \in {"xml", "csv"}}
        langs == {<<>>} \cup {<<<<"lang", S(l)>>>> : l \in {"fr", "xx"}}
    IN  {e \o l : e \in exts, l \in langs}

(***************************************************************************)
(* Initial state: a freshly constructed facade object, nothing loaded      *)
(***************************************************************************)
Init ==
    /\ cls \in {"Meta", "Collection"}
    /\ base_names = BaseNames(cls)
    /\ metabase = None
    /\ toc = None
    /\ toc_lang = None
    /\ _lang = S(DEF_LANG)
    /\ _sort = I(DEF_SORT)
    /\ resolved = [datasets |-> EmptyDict, dimensions |-> EmptyDict]
    /\ _table_ = [dic |-> None, data |-> None]
    /\ peer = None
    /\ call = NoCall
    /\ ret = NoRet

(***************************************************************************)
(* Resolved caches: the dictionaries datasets and dimensions of the        *)
(* object, from an entity code to what was resolved for it.                *)
(***************************************************************************)
\* dict.update({key: value})
DictUpdate(d, key, value) ==
    [k \in (DOMAIN d) \cup {key} |-> IF k = key THEN value ELSE d[k]]

\* Meta.setDataset(code) / Meta.setDimension(code), lines 707-714: the entry
\* is what getDataset / getDimension returns
Meta_set(cache, kind, code, mb) ==
    LET got == IF kind = "datasets"
               THEN Meta_get_member("dic", mb, [k \in {"data"} |-> code], <<"data">>)
               ELSE Meta_get_member("label", mb, [k \in {"dic"} |-> code], <<"dic">>)
    IN  IF got.kind = "raise" THEN [out |-> got, cache |-> cache]
        ELSE [out |-> Ok(None),
              cache |-> [cache EXCEPT ![kind] = DictUpdate(cache[kind], code, got.val)]]

\* Collection.setDatasets(code) / Collection.setDimensions(code), collection.py
\* lines 422-425: self.getDimensions(self, code) passes self twice, one
\* positional argument more than getDimensions takes
Collection_set(cache, kind, code, mb) == [out |-> Raise("TypeError"), cache |-> cache]

\* the setters of Collection.datasets / Collection.dimensions, collection.py
\* lines 170-197: `self.__datasets = datasets # not an update!`
Collection_assign(cache, kind, value) ==
    IF value[1] = "list"
    THEN \* zip_longest(list(value), None): None is not iterable
         [out |-> Raise("TypeError"), cache |-> cache]
    ELSE IF IsStr(value)
    THEN [out |-> Ok(None),
          cache |-> [cache EXCEPT ![kind] = [k \in {value[2]} |-> None]]]
    ELSE [out |-> Raise("wrong type for " \o kind \o " parameter"), cache |-> cache]

\* Meta.dataset / Meta.dimension (lines 633-645) are properties without a setter
Meta_assign(cache, kind, value) == [out |-> Raise("AttributeError"), cache |-> cache]

(***************************************************************************)
(* Files and listings of the bulk download: Bulk.read, Bulk.last_update,   *)
(* Bulk.readTable, Bulk.loadTable, and Collection.load_dataset,            *)
(* Collection.load_dimension.  Each outcome comes with the fields of the   *)
(* call record that the body determines: whether the Session Port was      *)
(* called, the entity kind selected, the extension and the file requested. *)
(***************************************************************************)
BULK_DIC_DIR == "dic"

BULK_DATA_DIR == "data"

BULK_DIC_EXTS == <<"dic">>

BULK_DATA_EXTS == <<"tsv", "sdmx">>

BULK_DATA_ZIP == "gz"

\* settings.__builtins__[name].  The attribute __builtins__ of a module is
\* the table of the built-in names; it holds a constant of settings only if
\* settings has put its names there (injected), and then under the name the
\* constant has in settings.
SettingsBuiltins(name, injected) ==
    IF ~injected THEN Raise("KeyError")
    ELSE CASE name = "BULK_DIC_DIR"   -> Ok(BULK_DIC_DIR)
           [] name = "BULK_DATA_DIR"  -> Ok(BULK_DATA_DIR)
           [] name = "BULK_DIC_EXTS"  -> Ok(BULK_DIC_EXTS)
           [] name = "BULK_DATA_EXTS" -> Ok(BULK_DATA_EXTS)
           [] name = "BULK_DIC_ZIP"   -> Ok(BULK_DIC_ZIP)
           [] name = "BULK_DATA_ZIP"  -> Ok(BULK_DATA_ZIP)
           [] OTHER                   -> Raise("KeyError")

NoFetch(err) == [out |-> Raise(err), fetched |-> FALSE, kind |-> "", ext |-> "", file |-> <<>>]

\* kwargs.get(key) / the value popped, None when the key is absent
Arg(kwargs, key) == IF key \in DOMAIN kwargs THEN kwargs[key] ELSE None

\* Bulk.read(kwargs), lines 533-566; answer is what session.load_page gives
Bulk_read(kwargs, injected, mb, answer) ==
    LET dimension == Arg(kwargs, "dic")
        dataset   == Arg(kwargs, "data")
        \* lines 533-538: the pop of 'data' that succeeds binds key last
        key       == IF "data" \in DOMAIN kwargs THEN "DATA" ELSE "DIC"
        entity    == IF "data" \in DOMAIN kwargs THEN "dataset" ELSE "dimension"
        bulk_exts == SettingsBuiltins("BULK_" \o key \o "_EXTS", injected)
        bulk_zip  == SettingsBuiltins("BULK_" \o key \o "_ZIP", injected)
        bulk_dir  == SettingsBuiltins("BULK_" \o key \o "_DIR", injected)
    IN  IF dataset = None /\ dimension = None
        THEN NoFetch("one of the parameters DIC or DATA needs to be set")
        ELSE IF ~(dataset = None \/ dimension = None)
        THEN NoFetch("parameters DIC or DATA are incompatible")
        ELSE IF bulk_exts.kind = "raise" THEN [NoFetch("KeyError") EXCEPT !.kind = key]
        ELSE IF "ext" \in DOMAIN kwargs /\ kwargs["ext"][2] \notin Range(bulk_exts.val)
        THEN [NoFetch("bulk extension EXT not recognised") EXCEPT !.kind = key]
        ELSE LET ext0 == IF "ext" \in DOMAIN kwargs THEN kwargs["ext"][2] ELSE bulk_exts.val[1]
                 ext  == IF bulk_zip.val # "" THEN <<ext0, ".", bulk_zip.val>> ELSE <<ext0>>
                 name == IF dimension # None THEN dimension ELSE dataset
                 resp == Meta_check("check_" \o entity, name[2], mb)
                 url  == update_url(BulkUrl, <<<<"sort", _sort>>, <<"file", S(bulk_dir.val)>>>>)
                 file == <<bulk_dir.val>>
                         \o (IF dimension # None THEN <<"/", Format(_lang)>> ELSE <<>>)
                         \o <<"/", name[2], ".">> \o ext
             IN  IF resp = Ok(FALSE)
                 THEN [NoFetch("wrong " \o key) EXCEPT !.kind = key, !.ext = ext0]
                 ELSE [out |-> answer, fetched |-> TRUE, kind |-> key, ext |-> ext0,
                       file |-> file]

\* Collection.load_dataset(dataset, kwargs), collection.py lines 304-329: the
\* check at line 311 passes self twice and its TypeError is passed over; the
\* format at line 327 names a field `set` that it is given no value for and
\* raises KeyError
Collection_load_dataset(dataset, kwargs, answer) ==
    IF "ext" \in DOMAIN kwargs /\ kwargs["ext"][2] \notin Range(BULK_DATA_EXTS)
    THEN [NoFetch("bulk data extension EXT not recognised") EXCEPT !.kind = "DATA"]
    ELSE [NoFetch("KeyError") EXCEPT
            !.kind = "DATA",
            !.ext = IF "ext" \in DOMAIN kwargs THEN kwargs["ext"][2] ELSE BULK_DATA_EXTS[1]]

\* Collection.load_dimension(dimension, kwargs), collection.py lines 348-372
Collection_load_dimension(dimension, kwargs, answer) ==
    LET url == update_url(BulkUrl, <<<<"lang", _lang>>, <<"sort", _sort>>,
                                     <<"file", S(BULK_DIC_DIR)>>>>)
    IN  IF url.kind = "raise" THEN [NoFetch(url.err) EXCEPT !.kind = "DIC"]
        ELSE IF "ext" \in DOMAIN kwargs /\ kwargs["ext"][2] \notin Range(BULK_DIC_EXTS)
        THEN [NoFetch("bulk dictionary extension EXT not recognised") EXCEPT !.kind = "DIC"]
        ELSE LET ext0 == IF "ext" \in DOMAIN kwargs THEN kwargs["ext"][2] ELSE BULK_DIC_EXTS[1]
                 ext  == IF BULK_DIC_ZIP # "" THEN <<ext0, ".", BULK_DIC_ZIP>> ELSE <<ext0>>
             IN  [out |-> answer, fetched |-> TRUE, kind |-> "DIC", ext |-> ext0,
                  file |-> <<BULK_DIC_DIR, "/", Format(_lang), "/", dimension, ".">> \o ext]

AsciiLowercase ==
    {"a", "b", "c", "d", "e", "f", "g", "h", "i", "j", "k", "l", "m",
     "n", "o", "p", "q", "r", "s", "t", "u", "v", "w", "x", "y", "z"}

\* Bulk.readTable(key, alpha), lines 494-511: the name looked up is built
\* from key as it is given, 'dic' or 'data'
Bulk_readTable(key, alpha, injected, answer) ==
    LET bulk_dir == SettingsBuiltins("BULK_" \o key \o "_DIR", injected)
    IN  IF bulk_dir.kind = "raise" THEN [out |-> Raise("KeyError"), fetched |-> FALSE]
        ELSE IF key = "data" /\ alpha \notin AsciiLowercase
        THEN [out |-> Raise("wrong parameter ALPHA"), fetched |-> FALSE]
        ELSE IF answer.kind = "raise"
        THEN [out |-> Raise("impossible to read html table"), fetched |-> TRUE]
        ELSE [out |-> answer, fetched |-> TRUE]

\* hasattr(d, name) on a dictionary d: its keys are no attributes
HasAttr(d, name) == FALSE

\* Bulk.loadTable(key, alpha), lines 512-522, on the listing tables t:
\* t.dic is self.__dimension['_table_'], t.data is self.__dataset['_table_'],
\* None where the dictionary has no key '_table_'
Bulk_loadTable(t, key, alpha, injected, answer) ==
    IF key \notin {"dic", "data"}
    THEN [out |-> Raise("keyword parameter not recognised"), fetched |-> FALSE, t |-> t]
    ELSE IF key = "dic"
    THEN IF ~HasAttr(t, "_table_")
         THEN LET df == Bulk_readTable(key, "a", injected, answer)
              IN  IF df.out.kind = "raise" THEN [out |-> df.out, fetched |-> df.fetched, t |-> t]
                  ELSE [out |-> df.out, fetched |-> df.fetched,
                        t |-> [t EXCEPT !.dic = df.out.val]]
         ELSE [out |-> Ok(t.dic), fetched |-> FALSE, t |-> t]
    ELSE IF ~HasAttr(t, "_table_")
         THEN \* the second operand of `and` reads self.__dataset['_table_']
              IF t.data = None THEN [out |-> Raise("KeyError"), fetched |-> FALSE, t |-> t]
              ELSE IF ~HasAttr(t.data, alpha)
              THEN LET df == Bulk_readTable(key, alpha, injected, answer)
                   IN  IF df.out.kind = "raise"
                       THEN [out |-> df.out, fetched |-> df.fetched, t |-> t]
                       ELSE [out |-> df.out, fetched |-> df.fetched,
                             t |-> [t EXCEPT !.data =
                                       [a \in (DOMAIN t.data) \cup {alpha} |->
                                           IF a = alpha THEN df.out.val ELSE t.data[a]]]]
              ELSE [out |-> Ok(t.data[alpha]), fetched |-> FALSE, t |-> t]
         ELSE [out |-> Ok(t.data[alpha]), fetched |-> FALSE, t |-> t]

\* the listing table that t holds for key and alpha, None if it holds none
Stored(t, key, alpha) ==
    IF key = "dic" THEN t.dic
    ELSE IF key = "data" /\ t.data # None /\ alpha \in DOMAIN t.data THEN t.data[alpha]
    ELSE None

\* dataset[0]: the first letter of a code
FirstLetter(code) ==
    CASE code \in {"ds1", "ds2"}   -> "d"
      [] code \in {"dim1", "dim2"} -> "d"
      [] OTHER                     -> "x"

\* Bulk.last_update(kwargs), lines 466-491, up to the listing it loads
Bulk_last_update(t, kwargs, injected, answer) ==
    LET dimension == Arg(kwargs, "dic")
        dataset   == Arg(kwargs, "data")
    IN  IF dataset = None /\ dimension = None
        THEN [out |-> Raise("one of the parameters DIC or DATA needs to be set"),
              fetched |-> FALSE, kind |-> "", t |-> t]
        ELSE IF ~(dataset = None \/ dimension = None)
        THEN [out |-> Raise("parameters DIC or DATA are incompatible"),
              fetched |-> FALSE, kind |-> "", t |-> t]
        ELSE LET key == IF dimension # None THEN "dic" ELSE "data"
                 df  == IF dimension # None THEN Bulk_loadTable(t, "dic", "a", injected, answer)
                        ELSE Bulk_loadTable(t, "data", FirstLetter(dataset[2]), injected, answer)
             IN  [out |-> df.out, fetched |-> df.fetched,
                  kind |-> IF key = "dic" THEN "DIC" ELSE "DATA", t |-> df.t]

(***************************************************************************)
(* The attributes lang and sort.  Their setters validate the value and     *)
(* raise before the field is written.  Collection.__init__ passes the      *)
(* keyword arguments through the setters, setattr(self, 'lang', value),    *)
(* and turns a raise into a warning, so the default stays.  __Base.__init__*)
(* derives the names from self.__dict__ ('_lang' gives 'lang') and writes  *)
(* setattr(self, '_lang', value): the field itself, past the setter.       *)
(***************************************************************************)
lang_setter(value) ==
    IF ~IsStr(value) THEN Raise("wrong type for LANG parameter")
    ELSE IF value[2] \notin LANGS THEN Raise("language not supported")
    ELSE Ok(value)

sort_setter(value) ==
    IF ~IsInt(value) THEN Raise("wrong type for SORT parameter")
    ELSE IF ~(value[2] > 0) THEN Raise("wrong value for SORT parameter")
    ELSE Ok(value)

\* the value of an attribute after __init__(kwargs)
Constructed(c, kwargs, attr, default) ==
    IF attr \notin DOMAIN kwargs THEN default
    ELSE IF c = "Meta" THEN kwargs[attr]
    ELSE LET set == IF attr = "lang" THEN lang_setter(kwargs[attr])
                    ELSE sort_setter(kwargs[attr])
         IN  IF set.kind = "raise" THEN default ELSE kwargs[attr]

LangInputs == {S("en"), S("fr"), S("xx"), I(1)}

SortInputs == {I(1), I(MaxSort), I(0), I(-1), S("a")}

AttrKwargs ==
    UNION {{kw \in [keys -> LangInputs \cup SortInputs] :
                \A k \in keys : kw[k] \in (IF k = "lang" THEN LangInputs ELSE SortInputs)}
           : keys \in SUBSET {"lang", "sort"}}

\* the object after __init__(kwargs)
InitAttrs ==
    \E kwargs \in AttrKwargs :
        /\ cls \in {"Meta", "Collection"}
        /\ base_names = BaseNames(cls)
        /\ metabase = None
        /\ toc = None
        /\ toc_lang = None
        /\ _lang = Constructed(cls, kwargs, "lang", S(DEF_LANG))
        /\ _sort = Constructed(cls, kwargs, "sort", I(DEF_SORT))
        /\ resolved = [datasets |-> EmptyDict, dimensions |-> EmptyDict]
        /\ _table_ = [dic |-> None, data |-> None]
        /\ peer = None
        /\ call = [op |-> "init", kwargs |-> kwargs]
        /\ ret = NoRet

\* obj.lang = value
SetLang ==
    \E value \in LangInputs :
        LET set == lang_setter(value)
        IN  /\ call' = [op |-> "lang", value |-> value, prior |-> _lang,
                        fetched |-> FALSE]
            /\ ret' = IF set.kind = "raise" THEN set ELSE Ok(None)
            /\ _lang' = IF set.kind = "raise" THEN _lang ELSE set.val
            /\ UNCHANGED <<cls, peer, base_names, tables, _sort, resolved, _table_>>

\* obj.sort = value
SetSort ==
    \E value \in SortInputs :
        LET set == sort_setter(value)
        IN  /\ call' = [op |-> "sort", value |-> value, prior |-> _sort,
                        fetched |-> FALSE]
            /\ ret' = IF set.kind = "raise" THEN set ELSE Ok(None)
            /\ _sort' = IF set.kind = "raise" THEN _sort ELSE set.val
            /\ UNCHANGED <<cls, peer, base_names, tables, _lang, resolved, _table_>>

NextAttrs == SetLang \/ SetSort

SpecAttrs == InitAttrs /\ [][NextAttrs]_vars

(***************************************************************************)
(* Facade operations                                                       *)
(***************************************************************************)
\* a call of the resolver on the object's table
GetMember ==
    \E member \in MemberArgs(cls), kwargs \in QueryKwargs(cls) :
        /\ call' = [op |-> "get_member", member |-> member, kwargs |-> kwargs,
                    fetched |-> FALSE,
                    \* the call repeats the previous one
                    again |-> /\ call.op = "get_member"
                              /\ call.member = member
                              /\ call.kwargs = kwargs]
        /\ IF cls = "Meta"
           THEN \E order \in Orders(GroupKeys(kwargs, META_BASE_NAMES)) :
                    /\ ret' = Meta_get_member(member, metabase, kwargs, order)
                    /\ base_names' = base_names
           ELSE LET res == Collection_get_member(member, metabase, kwargs)
                IN  /\ ret' = res.out
                    /\ base_names' = res.names
        /\ UNCHANGED <<cls, peer, fields, tables>>

\* Meta.getAllLabels(dimension, kwargs) / Collection.getLabels(dimension, kwargs)
GetLabels ==
    \E dimension \in QueryCodes(2), kwargs \in LabelKwargs(cls) :
        LET query == [k \in (DOMAIN kwargs) \cup {BaseNames(cls)[2]} |->
                         IF k = BaseNames(cls)[2] THEN dimension ELSE kwargs[k]]
        IN  /\ call' = [op |-> "getLabels", dimension |-> dimension, kwargs |-> kwargs,
                        fetched |-> FALSE,
                        \* the previous call was the same query up to the keys
                        \* that are no columns of the metabase
                        twin |-> /\ call.op = "getLabels"
                                 /\ call.dimension = dimension
                                 /\ call.kwargs # kwargs
                                 /\ Semantic(cls, call.kwargs) = Semantic(cls, kwargs)]
            /\ IF cls = "Meta"
               THEN \E order \in Orders(GroupKeys(query, META_BASE_NAMES)) :
                        /\ ret' = Meta_get_member("label", metabase, query, order)
                        /\ base_names' = base_names
               ELSE LET res == Collection_get_member("label", metabase, query)
                    IN  /\ ret' = res.out
                        /\ base_names' = res.names
            /\ UNCHANGED <<cls, peer, fields, tables>>

\* the arguments of the calls that fetch a file or a listing
FetchExts == {S("tsv"), S("dic"), S("csv")}

FetchKwargs(keys) ==
    UNION {{kw \in [ks -> {S("dim1"), S("ds1"), None} \cup FetchExts] :
                \A k \in ks : kw[k] \in (CASE k = "dic"  -> {S("dim1"), None}
                                           [] k = "data" -> {S("ds1"), None}
                                           [] OTHER      -> FetchExts)}
           : ks \in SUBSET keys}

\* what session.load_page may answer
Pages == {Ok(S("page")), Raise("session")}

\* what session.read_html_table may answer
HtmlTables == {Ok(<<"html", "t1">>), Ok(<<"html", "t2">>), Raise("session")}

\* Bulk.read(kwargs)
Read ==
    /\ cls = "Meta"
    /\ \E kwargs \in FetchKwargs({"dic", "data", "ext"}), injected \in BOOLEAN,
          answer \in Pages :
            LET r == Bulk_read(kwargs, injected, metabase, answer)
            IN  /\ call' = [op |-> "read", kwargs |-> kwargs, injected |-> injected,
                            fetched |-> r.fetched,
                            kind |-> r.kind, ext |-> r.ext, file |-> r.file]
                /\ ret' = r.out
    /\ UNCHANGED <<cls, peer, fields, base_names, tables>>

\* Collection.load_dataset(code, kwargs) / Collection.load_dimension(code, kwargs)
LoadEntity ==
    /\ cls = "Collection"
    /\ \E method \in {"load_dataset", "load_dimension"}, kwargs \in FetchKwargs({"ext"}),
          answer \in Pages :
            LET code == IF method = "load_dataset" THEN "ds1" ELSE "dim1"
                r    == IF method = "load_dataset"
                        THEN Collection_load_dataset(code, kwargs, answer)
                        ELSE Collection_load_dimension(code, kwargs, answer)
            IN  /\ call' = [op |-> method, kwargs |-> kwargs, fetched |-> r.fetched,
                            kind |-> r.kind, ext |-> r.ext, file |-> r.file]
                /\ ret' = r.out
    /\ UNCHANGED <<cls, peer, fields, base_names, tables>>

\* Bulk.last_update(kwargs)
LastUpdate ==
    /\ cls = "Meta"
    /\ \E kwargs \in FetchKwargs({"dic", "data"}), injected \in BOOLEAN,
          answer \in HtmlTables :
            LET r == Bulk_last_update(_table_, kwargs, injected, answer)
            IN  /\ call' = [op |-> "last_update", kwargs |-> kwargs, injected |-> injected,
                            fetched |-> r.fetched,
                            kind |-> r.kind]
                /\ ret' = r.out
                /\ _table_' = r.t
    /\ UNCHANGED <<cls, peer, _lang, _sort, resolved, base_names, tables>>

\* Bulk.loadTable(key, alpha)
LoadTable ==
    /\ cls = "Meta"
    /\ \E key \in {"dic", "data", "toc"}, alpha \in {"a", "d", "1"}, injected \in BOOLEAN,
          answer \in HtmlTables :
            LET r == Bulk_loadTable(_table_, key, alpha, injected, answer)
            IN  /\ call' = [op |-> "loadTable", key |-> key, alpha |-> alpha,
                            injected |-> injected,
                            \* what the Session Port answers when it is asked
                            answer |-> answer, fetched |-> r.fetched,
                            \* the table stored for key and alpha before the call
                            prior |-> Stored(_table_, key, alpha)]
                /\ ret' = r.out
                /\ _table_' = r.t
    /\ UNCHANGED <<cls, peer, _lang, _sort, resolved, base_names, tables>>

\* setDataset(code), setDimension(code) (setDatasets, setDimensions)
SetEntry ==
    \E kind \in {"datasets", "dimensions"} :
        \E code \in QueryCodes(IF kind = "datasets" THEN 1 ELSE 2) :
            LET r == IF cls = "Meta" THEN Meta_set(resolved, kind, code, metabase)
                     ELSE Collection_set(resolved, kind, code, metabase)
            IN  /\ call' = [op |-> "set", kind |-> kind, code |-> code, fetched |-> FALSE]
                /\ ret' = r.out
                /\ resolved' = r.cache
                /\ UNCHANGED <<cls, peer, _lang, _sort, _table_, base_names, tables>>

\* obj.datasets = value, obj.dimensions = value (obj.dataset, obj.dimension)
AssignCache ==
    \E kind \in {"datasets", "dimensions"} :
        \E value \in {S(c) : c \in QueryCodes(IF kind = "datasets" THEN 1 ELSE 2)}
                      \cup {<<"list", "ds1">>, I(1)} :
            LET r == IF cls = "Meta" THEN Meta_assign(resolved, kind, value)
                     ELSE Collection_assign(resolved, kind, value)
            IN  /\ call' = [op |-> "assign", kind |-> kind, value |-> value,
                            fetched |-> FALSE]
                /\ ret' = r.out
                /\ resolved' = r.cache
                /\ UNCHANGED <<cls, peer, _lang, _sort, _table_, base_names, tables>>

\* the answer of the resolver of an object of class c whose table is mb
Answer(c, mb, member, kwargs) ==
    IF c = "Meta"
    THEN Meta_get_member(member, mb, kwargs,
                         IF DOMAIN kwargs = {} THEN <<>> ELSE <<META_BASE_NAMES[2]>>)
    ELSE Collection_get_member(member, mb, kwargs).out

\* the tables the other object loads
PeerTables ==
    {DataFrame(<<r>>) : r \in {<<"ds1", "dim1", "lbl1">>, <<"ds2", "dim1", "lbl3">>}}

\* another object of the class is constructed
PeerConstruct ==
    /\ call' = [op |-> "peer.init", fetched |-> FALSE]
    /\ ret' = Ok(None)
    /\ peer' = None
    /\ UNCHANGED <<cls, fields, base_names, tables>>

\* setMetabase() on the other object
PeerSetMetabase ==
    \E fetched \in {Raise("session")} \cup {Ok(t) : t \in PeerTables} :
        LET url  == MetabaseUrl(I(DEF_SORT))
            read == readMetabase(url.val, fetched)
        IN  /\ call' = [op |-> "peer.setMetabase", fetched |-> TRUE,
                        failed |-> fetched.kind = "raise"]
            /\ peer' = read.val
            /\ ret' = Ok(None)
            /\ UNCHANGED <<cls, fields, base_names, tables>>

\* getAllLabels(dimension) / getLabels(dimension) on the other object
PeerGetLabels ==
    \E dimension \in QueryCodes(2) :
        LET query == [k \in {BaseNames(cls)[2]} |-> dimension]
        IN  /\ call' = [op |-> "peer.getLabels", dimension |-> dimension,
                        fetched |-> FALSE]
            /\ ret' = Answer(cls, peer, "label", query)
            /\ base_names' = IF cls = "Meta" THEN base_names
                             ELSE Collection_get_member("label", peer, query).names
            /\ UNCHANGED <<cls, peer, fields, tables>>

\* the properties dataset / dimension (meta_datasets / meta_dimensions)
Listing ==
    \E i \in 1..2 :
        /\ call' = [op |-> "listing", column |-> i, fetched |-> FALSE]
        /\ ret' = IF cls = "Meta"
                  THEN Meta_listing(metabase, META_BASE_NAMES[i])
                  ELSE Collection_listing(metabase, i - 1)
        /\ UNCHANGED <<cls, peer, fields, base_names, tables>>

\* check_dataset(value), check_dimension(value), and Meta.checkDataset(value)
CheckMember ==
    \E method \in (IF cls = "Meta" THEN {"check_dataset", "check_dimension", "checkDataset"}
                   ELSE {"check_dataset", "check_dimension"}) :
        LET column == IF method = "check_dimension" THEN 2 ELSE 1
        IN  \E value \in QueryCodes(column) :
                /\ call' = [op |-> "check", method |-> method, column |-> column,
                            value |-> value, fetched |-> FALSE]
                /\ ret' = IF cls = "Meta" THEN Meta_check(method, value, metabase)
                          ELSE Collection_check(method, value,
                                    DOMAIN resolved[IF column = 1 THEN "datasets"
                                                    ELSE "dimensions"])
                /\ UNCHANGED <<cls, peer, fields, base_names, tables>>

\* setMetabase(): self.__metabase = self.readMetabase()
SetMetabase ==
    \E fetched \in {Raise("session")} \cup {Ok(t) : t \in MetabaseTables} :
        LET url  == MetabaseUrl(_sort)
            read == readMetabase(url.val, fetched)
        IN  /\ call' = [op |-> "setMetabase", url |-> Text(url.val),
                        fetched |-> TRUE, failed |-> fetched.kind = "raise",
                        \* what the Session Port answered, and the number of
                        \* rows stored before the call (-1: no table)
                        answer |-> fetched,
                        prior |-> IF metabase = None THEN -1 ELSE Len(Rows(metabase))]
            /\ metabase' = read.val
            /\ ret' = Ok(None)
            /\ UNCHANGED <<cls, peer, fields, base_names, toc, toc_lang>>

\* setTOC(kwargs): self.__toc = self.readToc(kwargs)
SetTOC ==
    \E kwargs \in TocKwargs :
        \E fetched \in TocFetched(TocExt(kwargs)) :
            LET read  == readToc(cls, kwargs, Format(_lang), fetched)
                file  == TocFile(cls, TocExt(kwargs), TocLang(kwargs, Format(_lang)))
                url   == TocUrl(cls, TocExt(kwargs), TocLang(kwargs, Format(_lang)), _sort)
                valid == ~TocExtRejected(kwargs) /\ ~TocLangRejected(kwargs)
            IN  /\ call' = IF valid
                           THEN [op |-> "setTOC", kwargs |-> kwargs, url |-> Text(url.val),
                                 file |-> file,
                                 fetched |-> TRUE, failed |-> fetched.kind = "raise",
                                 answer |-> fetched]
                           ELSE [op |-> "setTOC", kwargs |-> kwargs, url |-> "",
                                 file |-> <<>>,
                                 fetched |-> FALSE, failed |-> FALSE,
                                 answer |-> Raise("not called")]
                /\ IF read.kind = "raise"
                   THEN /\ ret' = read
                        /\ UNCHANGED <<toc, toc_lang>>
                   ELSE /\ toc' = read.val
                        /\ toc_lang' = IF read.val = None \/ TocExt(kwargs) = "xml" THEN None
                                       ELSE S(TocLang(kwargs, Format(_lang)))
                        /\ ret' = Ok(None)
                /\ UNCHANGED <<cls, peer, fields, base_names, metabase>>

\* Meta.getTitle(dataset)
GetTitle ==
    /\ cls = "Meta"
    /\ \E dataset \in LookupCodes :
        /\ call' = [op |-> "getTitle", dataset |-> dataset, fetched |-> FALSE]
        /\ ret' = getTitle(dataset, toc)
    /\ UNCHANGED <<cls, peer, fields, base_names, tables>>

\* Meta.getPeriod(dataset)
GetPeriod ==
    /\ cls = "Meta"
    /\ \E dataset \in LookupCodes :
        /\ call' = [op |-> "getPeriod", dataset |-> dataset, fetched |-> FALSE]
        /\ ret' = getPeriod(dataset, toc)
    /\ UNCHANGED <<cls, peer, fields, base_names, tables>>

Next == GetMember \/ Listing \/ CheckMember \/ SetMetabase

Spec == Init /\ [][Next]_vars

\* the labels of a dimension, asked with and without further keys
NextLabels == SetMetabase \/ GetLabels

SpecLabels == Init /\ [][NextLabels]_vars

\* the files and the listings of the bulk download
NextFetch == SetMetabase \/ Read \/ LoadEntity \/ LastUpdate \/ LoadTable

SpecFetch == Init /\ [][NextFetch]_vars

\* the files of the bulk download and the table of contents, by extension
NextFiles == SetTOC \/ Read \/ LoadEntity

SpecFiles == Init /\ [][NextFiles]_vars

\* the resolved caches: their entries and the checks that read them
NextCache == SetMetabase \/ SetEntry \/ AssignCache \/ CheckMember

SpecCache == Init /\ [][NextCache]_vars

\* two objects of the class in one process
NextPeers ==
    \/ SetMetabase \/ GetLabels
    \/ PeerConstruct \/ PeerSetMetabase \/ PeerGetLabels

SpecPeers == Init /\ [][NextPeers]_vars

\* the table of contents alone: its loads and its lookups
NextToc == SetTOC \/ GetTitle \/ GetPeriod

SpecToc == Init /\ [][NextToc]_vars

\* the object is a Meta of pyrostat/collection.py
InitMeta == Init /\ cls = "Meta"

SpecMeta == InitMeta /\ [][Next]_vars

\* the object is a Collection of collection.py
InitCollection == Init /\ cls = "Collection"

SpecCollection == InitCollection /\ [][Next]_vars

\* a Meta with both of its tables: the loads, and the queries that take no
\* constraint
NextLoad == SetMetabase \/ SetTOC \/ Listing \/ CheckMember \/ GetTitle \/ GetPeriod

SpecLoad == InitMeta /\ [][NextLoad]_vars

(***************************************************************************)
(* URL Builder as a state machine: the arguments of a call are drawn in    *)
(* the initial state and the one step is the call of update_url on them.   *)
(***************************************************************************)
InitUrl ==
    /\ cls \in {"Meta", "Collection"}
    /\ base_names = BaseNames(cls)
    /\ metabase = None
    /\ toc = None
    /\ toc_lang = None
    /\ _lang = S(DEF_LANG)
    /\ _sort = I(DEF_SORT)
    /\ resolved = [datasets |-> EmptyDict, dimensions |-> EmptyDict]
    /\ _table_ = [dic |-> None, data |-> None]
    /\ peer = None
    /\ call \in {[op |-> o, domain |-> d, kwargs |-> kw] :
                    o \in {"update_url", "_url_static"}, d \in Domains, kw \in ParamMaps}
    /\ ret = NoRet

UpdateUrl ==
    /\ call.op = "update_url"
    /\ ret = NoRet
    /\ ret' = update_url(call.domain, call.kwargs)
    /\ UNCHANGED <<cls, peer, fields, base_names, tables, call>>

\* self._url_static(kwargs) on an object whose domain is call.domain
UrlStatic ==
    /\ call.op = "_url_static"
    /\ ret = NoRet
    /\ ret' = _url_static(call.domain, call.kwargs)
    /\ UNCHANGED <<cls, peer, fields, base_names, tables, call>>

NextUrl == UpdateUrl \/ UrlStatic

SpecUrl == InitUrl /\ [][NextUrl]_vars

(***************************************************************************)
(* Properties of the URL Builder (checked under SpecUrl)                   *)
(***************************************************************************)
UrlCalled == call.op = "update_url" /\ ret # NoRet

SupportedLang(v) == \E l \in LANGS : v = S(l)

\* lang is absent, None or supported: update_url accepts the mapping
LangAccepted(kw) ==
    ~HasKey(kw, "lang") \/ Get(kw, "lang") = None \/ SupportedLang(Get(kw, "lang"))

\* the positions of the keys of the key=value pairs of a URL
PairKeys(url) == {i \in 1..(Len(url) - 1) : url[i + 1] = "="}

C10_SortValidated ==
    (UrlCalled /\ HasKey(call.kwargs, "sort")
               /\ ~(IsInt(Get(call.kwargs, "sort")) /\ Get(call.kwargs, "sort")[2] > 0))
        => ret.kind = "raise"

BuilderCalled == call.op \in {"update_url", "_url_static"} /\ ret # NoRet

(* C12. With an empty parameter mapping, update_url and _url_static return *)
(* the domain string unchanged: no '?', no default sort, no language       *)
(* segment.                                                                *)
C12_EmptyMappingGivesDomain ==
    (BuilderCalled /\ call.kwargs = <<>>) => ret = Ok(<<call.domain>>)

(***************************************************************************)
(* Properties of the resolver and of loading (checked under Spec)          *)
(***************************************************************************)
Resolved == call.op = "get_member"

Queried == call.op \in {"get_member", "listing"}

Loaded == metabase # None

NotLoadedErrors == {"metabase data not found", "no METABASE data found"}

\* a query the resolver's contract accepts: a semantic column as target,
\* constraints on other columns only
ValidQuery ==
    /\ Resolved
    /\ call.member \in Range(BaseNames(cls))
    /\ call.member \notin DOMAIN call.kwargs

\* the rows of the table that satisfy every constraint of the query
Matching ==
    {i \in 1..Len(Rows(metabase)) :
        \A k \in DOMAIN call.kwargs :
            Rows(metabase)[i][ColumnOf(BaseNames(cls), k)] = call.kwargs[k]}

\* the rows that satisfy at least one constraint
MatchingAny ==
    {i \in 1..Len(Rows(metabase)) :
        \E k \in DOMAIN call.kwargs :
            Rows(metabase)[i][ColumnOf(BaseNames(cls), k)] = call.kwargs[k]}

Projected(rowset) ==
    {Rows(metabase)[i][ColumnOf(BaseNames(cls), call.member)] : i \in rowset}

\* the call returned the values of `set`, each once
ReturnsExactly(set) ==
    /\ ret.kind = "ok"
    /\ Range(ret.val) = set
    /\ Len(ret.val) = Cardinality(set)

(* C1. Conjunction law: with constraints on the two other columns, the     *)
(* resolver returns exactly the distinct target values of the rows that    *)
(* satisfy both constraints on the same row.                               *)
C1_ConjunctionLaw ==
    (ValidQuery /\ Loaded /\ Cardinality(DOMAIN call.kwargs) = 2)
        => ReturnsExactly(Projected(Matching))

(* C2. A query with one or two constraints that match no row of the loaded *)
(* table returns the empty set, without an error.                          *)
C2_NoMatchGivesEmpty ==
    (ValidQuery /\ Loaded /\ Cardinality(DOMAIN call.kwargs) \in {1, 2} /\ Matching = {})
        => ret = Ok(<<>>)

\* What Meta.__get_member does for a valid query on a loaded table: the
\* conjunction when some row matches, KeyError (from get_group) when the
\* query has constraints and none does.  Holds under SpecMeta.
Meta_ResolverOutcome ==
    (cls = "Meta" /\ ValidQuery /\ Loaded) =>
        IF Matching # {} THEN ReturnsExactly(Projected(Matching))
        ELSE IF DOMAIN call.kwargs # {} THEN ret = Raise("KeyError")
        ELSE ret = Ok(<<>>)

(* C3. A query on an absent table fails with the not-loaded error, and no  *)
(* query operation invokes the Session Port.                               *)
C3_AbsentTableNotLoadedNoFetch ==
    Queried =>
        /\ ~Loaded => (ret.kind = "raise" /\ ret.err \in NotLoadedErrors)
        /\ ~call.fetched

(* C4. When the Session Port fails during a load, the load reports an      *)
(* error naming the attempted URL; it never completes normally.            *)
C4_LoadFailureReported ==
    (call.op \in {"setMetabase", "setTOC"} /\ call.failed)
        => (ret.kind = "raise" /\ \E i \in 1..Len(ret.err) : ret.err[i] = call.url)

(* C5. With no constraint the resolver returns the distinct values of the  *)
(* target column over the whole loaded table.                              *)
C5_UnconstrainedGivesAllDistinct ==
    (ValidQuery /\ Loaded /\ DOMAIN call.kwargs = {})
        => ReturnsExactly(Projected(1..Len(Rows(metabase))))

(* C6. Resolve on a loaded table with zero rows returns the empty set      *)
(* without error; resolve on a never-loaded table raises the not-loaded    *)
(* error.                                                                  *)
C6_EmptyTableVsNotLoaded ==
    ValidQuery =>
        /\ metabase = DataFrame(<<>>) => ret = Ok(<<>>)
        /\ metabase = None => (ret.kind = "raise" /\ ret.err \in NotLoadedErrors)

(* C13. On a loaded table the resolver fails with the unknown-column error *)
(* exactly when the target column is not one of the three semantic columns *)
(* of the metabase: a target outside them gets that error, and none of the *)
(* three valid targets fails for that reason.                              *)
C13_UnknownColumnRejected ==
    (Resolved /\ Loaded) =>
        (call.member \notin Range(BaseNames(cls))
            <=> ret = Raise("member value not recognised"))

\* the resolver was called on a loaded table of two rows with the target geo
C13_Witness ==
    /\ Resolved /\ Loaded /\ Len(Rows(metabase)) = 2
    /\ call.member = "geo"
    /\ ret = Raise("member value not recognised")

(* C14. A query that passes its target column as a constraint key fails    *)
(* with the invalid-query error and never returns a result.                *)
C14_TargetAsConstraintRejected ==
    (Resolved /\ Loaded /\ call.member \in Range(BaseNames(cls))
              /\ call.member \in DOMAIN call.kwargs)
        => ret = Raise("member value should not be passed as a keyword argument")

(* C15. Resolver idempotence: a resolver call that repeats the previous    *)
(* call (same target column, same constraints, no load in between) has the *)
(* same outcome as the previous call, and a resolver call changes neither  *)
(* the table nor the column-name configuration.                            *)
C15_ResolverIdempotent ==
    [][(call'.op = "get_member") =>
          /\ metabase' = metabase
          /\ base_names' = base_names
          /\ (/\ call.op = "get_member"
              /\ call'.member = call.member
              /\ call'.kwargs = call.kwargs) => ret' = ret]_vars

\* the query for the datasets of dim1 was repeated and answered ds1, ds2
C15_Witness ==
    /\ Resolved /\ call.again
    /\ call.member = "data"
    /\ DOMAIN call.kwargs = {"dic"} /\ call.kwargs["dic"] = "dim1"
    /\ ret = Ok(<<"ds1", "ds2">>)

\* the distinct values of column i of the loaded metabase
Universe(i) == {Rows(metabase)[r][i] : r \in 1..Len(Rows(metabase))}

(* C16. A membership check of a value in a column of the loaded metabase   *)
(* returns true exactly when the value is among the distinct values of the *)
(* column, and fails with the empty-universe error when the column has no  *)
(* value.                                                                  *)
C16_MembershipCheck ==
    (call.op = "check" /\ Loaded) =>
        IF Universe(call.column) = {} THEN ret = Raise("no members to compare to")
        ELSE ret = Ok(call.value \in Universe(call.column))

(***************************************************************************)
(* Properties of the loads and of the TOC lookup                           *)
(***************************************************************************)
\* the table the Session Port handed over in its answer to a load, or None
\* when it handed over none (it failed, or the page held no table)
Answered(c) ==
    IF c.answer.kind = "raise" THEN None
    ELSE IF c.op = "setTOC" /\ TocExt(c.kwargs) = "xml"
         THEN IF c.answer.val = <<>> THEN None ELSE c.answer.val[1]
    ELSE c.answer.val

\* t holds every row of the answered table a, in order, each with all its
\* cells but the trailing `drop` ones
WholeTable(t, a, drop) ==
    /\ t # None /\ a # None
    /\ Len(Rows(t)) = Len(Rows(a))
    /\ \A i \in 1..Len(Rows(a)) :
          Rows(t)[i] = SubSeq(Rows(a)[i], 1, Len(Rows(a)[i]) - drop)

(* C17. The stored metabase and the stored TOC are each either absent or   *)
(* one complete table of a single answer of the Session Port: a load that  *)
(* completes stores the whole answered table (the TOC without its values   *)
(* column) in place of the previous one, or nothing when no table was      *)
(* answered, and every other step leaves the stored tables as they were.   *)
C17_WholeTableSwap ==
    [][/\ IF call'.op = "setMetabase"
          THEN \/ Answered(call') = None /\ metabase' = None
               \/ WholeTable(metabase', Answered(call'), 0)
          ELSE metabase' = metabase
       /\ IF call'.op = "setTOC" /\ ret'.kind = "ok"
          THEN \/ Answered(call') = None /\ toc' = None
               \/ WholeTable(toc', Answered(call'), 1)
          ELSE toc' = toc]_vars

\* a reload put a one-row metabase in the place of a two-row one, next to a
\* stored TOC of two rows
C17_Witness ==
    /\ call.op = "setMetabase" /\ call.prior = 2
    /\ metabase # None /\ Len(Rows(metabase)) = 1
    /\ toc # None /\ Len(Rows(toc)) = 2

\* the step is a load of the TOC that completed with a table answered
TocLoaded == call'.op = "setTOC" /\ ret'.kind = "ok" /\ Answered(call') # None

(* C18. A successful load of the TOC replaces the TOC loaded for the same  *)
(* language without merging, and leaves the TOC loaded for another         *)
(* language as it was.                                                     *)
C18_LoadKeyedByLanguage ==
    [][TocLoaded =>
          IF toc # None /\ toc_lang # None /\ toc_lang' # None /\ toc_lang' # toc_lang
          THEN toc' = toc
          ELSE WholeTable(toc', Answered(call'), 1)]_vars

TocLookup == call.op \in {"getTitle", "getPeriod"}

\* the rows of the stored TOC whose code is the one looked up
TocMatches == {i \in 1..Len(Rows(toc)) : Rows(toc)[i][1] = call.dataset}

(* C19. A TOC lookup for a dataset code that no row of the loaded TOC      *)
(* carries raises the not-found error, and returns no row.                 *)
C19_AbsentCodeNotFound ==
    (TocLookup /\ toc # None /\ TocMatches = {})
        => ret = Raise("member not found in codelist of table of contents")

\* ds2 was looked up in a TOC of two rows of ds1
C19_Witness ==
    /\ TocLookup /\ toc # None /\ Len(Rows(toc)) = 2
    /\ call.dataset = S("ds2")
    /\ ret.kind = "raise"

\* r is t without its leading and its trailing whitespace
Trimmed(t, r) ==
    \E a \in 0..Len(t) :
        /\ a + Len(r) <= Len(t)
        /\ r = SubSeq(t, a + 1, a + Len(r))
        /\ \A i \in (1..a) \cup ((a + Len(r) + 1)..Len(t)) : t[i] \in Whitespace
        /\ r # <<>> => (r[1] \notin Whitespace /\ r[Len(r)] \notin Whitespace)

FirstMatch == CHOOSE i \in TocMatches : \A j \in TocMatches : i <= j

(* C20. For a dataset code that one or several rows of the loaded TOC      *)
(* carry, getTitle returns the title of the first of these rows without    *)
(* its surrounding whitespace, and getPeriod the [start, end] pair of that *)
(* same row exactly as stored.                                             *)
C20_FirstMatchTitleAndPeriod ==
    (TocLookup /\ toc # None /\ TocMatches # {}) =>
        /\ ret.kind = "ok"
        /\ call.op = "getTitle" =>
              /\ IsStr(ret.val)
              /\ Trimmed(Rows(toc)[FirstMatch][2][2], ret.val[2])
        /\ call.op = "getPeriod" =>
              ret.val = <<Rows(toc)[FirstMatch][3], Rows(toc)[FirstMatch][4]>>

\* a code carried by two rows with different titles and periods was looked up
C20_Witness ==
    /\ TocLookup /\ toc # None /\ ret.kind = "ok"
    /\ Cardinality(TocMatches) = 2
    /\ Rows(toc)[1] # Rows(toc)[2]
    /\ \/ call.op = "getTitle" /\ ret.val = S(<<"T1">>)
       \/ call.op = "getPeriod" /\ ret.val = <<S(" 2005"), S("2015 ")>>

(***************************************************************************)
(* C29: constraint keys that are no semantic columns of the metabase are   *)
(* ignored by the resolver: two consecutive label queries that differ only *)
(* in such keys return the same result, so the extra key raises no error   *)
(* of its own.                                                             *)
(***************************************************************************)
C29_ExtraKeysIgnored ==
    [][(call'.op = "getLabels" /\ call'.twin) => ret' = ret]_vars

\* a label query with the extra key answered from the table right after the
\* same query without it
C29_Witness ==
    /\ call.op = "getLabels"
    /\ call.twin
    /\ ExtraKey \in DOMAIN call.kwargs
    /\ BaseNames(cls)[1] \in DOMAIN call.kwargs
    /\ cls = "Meta"
    /\ ret = Ok(<<"lbl1">>)

(***************************************************************************)
(* C25: state unchanged on error: a reload of the metabase, or of the      *)
(* table of contents, that fails after an earlier successful load leaves   *)
(* the stored table as it was, so the object stays loaded.                 *)
(***************************************************************************)
C25_FailedReloadKeepsTable ==
    [][/\ (call'.op = "setMetabase" /\ call'.failed /\ metabase # None)
            => metabase' = metabase
       /\ (call'.op = "setTOC" /\ call'.failed /\ toc # None)
            => toc' = toc]_vars

(***************************************************************************)
(* C23: the file name requested by the load of the table of contents is    *)
(* <toc>_<lang>.<ext> for every extension but xml and <toc>.xml for xml,   *)
(* where <toc> is the base name of the table of contents, not that of the  *)
(* metabase.                                                               *)
(***************************************************************************)
C23_TocFileName ==
    (call.op = "setTOC" /\ call.fetched) =>
        LET ext      == TocExt(call.kwargs)
            language == TocLang(call.kwargs, Format(_lang))
        IN  Text(call.file) = IF ext = "xml" THEN BULK_TOC_FILE \o ".xml"
                              ELSE BULK_TOC_FILE \o "_" \o language \o "." \o ext

(***************************************************************************)
(* C26: after construction with any keyword arguments and after any        *)
(* sequence of assignments of lang and sort, lang is a supported language  *)
(* and sort is a positive integer; an assignment of a value that is not    *)
(* raises and leaves the attribute with the value it had.                  *)
(***************************************************************************)
C26_LangSortInvariant ==
    /\ IsStr(_lang) /\ _lang[2] \in LANGS
    /\ IsInt(_sort) /\ _sort[2] > 0
    /\ (call.op = "lang" /\ ~(IsStr(call.value) /\ call.value[2] \in LANGS))
            => (ret.kind = "raise" /\ _lang = call.prior)
    /\ (call.op = "sort" /\ ~(IsInt(call.value) /\ call.value[2] > 0))
            => (ret.kind = "raise" /\ _sort = call.prior)

(***************************************************************************)
(* C24: fetching a dataset, a dimension or a table of contents with an     *)
(* extension outside the allowed set of that entity kind fails with an     *)
(* error before any call of the Session Port; when no extension is given   *)
(* the first allowed extension of that kind is the one requested.          *)
(***************************************************************************)
Given(kwargs, key) == key \in DOMAIN kwargs /\ kwargs[key] # None

\* the call names one entity, and so one entity kind
NamesOne(c) ==
    \/ c.op \in {"load_dataset", "load_dimension"}
    \/ /\ c.op \in {"read", "last_update"}
       /\ Given(c.kwargs, "dic") # Given(c.kwargs, "data")

KindOf(c) ==
    IF c.op = "load_dataset" THEN "DATA"
    ELSE IF c.op = "load_dimension" THEN "DIC"
    ELSE IF Given(c.kwargs, "dic") THEN "DIC" ELSE "DATA"

AllowedExts(c) == IF KindOf(c) = "DIC" THEN BULK_DIC_EXTS ELSE BULK_DATA_EXTS

C24_ExtensionValidated ==
    /\ (call.op \in {"read", "load_dataset", "load_dimension"} /\ NamesOne(call)) =>
         /\ ("ext" \in DOMAIN call.kwargs
                /\ call.kwargs["ext"][2] \notin Range(AllowedExts(call)))
              => (ret.kind = "raise" /\ ~call.fetched)
         /\ ("ext" \notin DOMAIN call.kwargs
                /\ ret \notin {Raise("wrong DIC"), Raise("wrong DATA")})
              => (call.fetched /\ call.ext = AllowedExts(call)[1])
    /\ (call.op = "setTOC") =>
         /\ TocExtRejected(call.kwargs) => (ret.kind = "raise" /\ ~call.fetched)
         /\ (~HasKey(call.kwargs, "ext") /\ ~TocLangRejected(call.kwargs))
              => (call.fetched /\ call.file[Len(call.file)] = BULK_TOC_EXTS[1])

(***************************************************************************)
(* C27: read and last_update require exactly one of the arguments dic and  *)
(* data: with neither or with both they raise before any call of the       *)
(* Session Port, and with exactly one they select the entity kind of that  *)
(* argument, and so its directory, extension set and listing.              *)
(***************************************************************************)
C27_ExactlyOneOfDicData ==
    (call.op \in {"read", "last_update"}) =>
        IF NamesOne(call) THEN call.kind = KindOf(call)
        ELSE /\ ret \in {Raise("one of the parameters DIC or DATA needs to be set"),
                         Raise("parameters DIC or DATA are incompatible")}
             /\ ~call.fetched

(***************************************************************************)
(* C28: loadTable asks the Session Port at most once for the listing of    *)
(* 'dic' and at most once per start letter for the listing of 'data': a    *)
(* call for a key and letter whose table is stored returns that table      *)
(* without a fetch, and the first call for a key and letter returns the    *)
(* table the Session Port answers, which is then the one stored.           *)
(***************************************************************************)
C28_ListingTableCache ==
    (/\ call.op = "loadTable"
     /\ call.key \in {"dic", "data"}
     /\ call.key = "data" => call.alpha \in AsciiLowercase) =>
        IF call.prior # None
        THEN ~call.fetched /\ ret = Ok(call.prior)
        ELSE call.answer.kind = "ok" =>
                /\ ret = call.answer
                /\ Stored(_table_, call.key, call.alpha) = call.answer.val

(***************************************************************************)
(* C22: resolved cache permanence: an entry of the resolved cache of the   *)
(* object stays present, with its value, through every later operation of  *)
(* the object, attribute assignments and additions of entries included.    *)
(***************************************************************************)
C22_CachePermanent ==
    [][\A kind \in {"datasets", "dimensions"} :
          \A code \in DOMAIN resolved[kind] :
              /\ code \in DOMAIN resolved'[kind]
              /\ resolved'[kind][code] = resolved[kind][code]]_vars

(***************************************************************************)
(* C21: independence of collections: no operation on one object (its       *)
(* construction, a load, a resolver call) changes what an operation on     *)
(* another object returns or the fields of that object, and no operation   *)
(* changes the process-wide column names that the resolvers read.          *)
(***************************************************************************)
PeerOps == {"peer.init", "peer.setMetabase", "peer.getLabels"}

\* what an object of class c whose table is mb returns: the labels of a
\* dimension, all the labels, all the datasets
Answers(c, mb) ==
    <<Answer(c, mb, "label", [k \in {BaseNames(c)[2]} |-> "dim1"]),
      Answer(c, mb, "label", <<>>),
      Answer(c, mb, BaseNames(c)[1], <<>>)>>

====
